---- MODULE Spec2Model ----
(***************************************************************************)
(* A model of the native backend of InstantText OCR                        *)
(* (src/src-tauri/src/lib.rs): the Tauri commands that capture and crop a  *)
(* screenshot, keep the OCR result ledger and the settings record in the   *)
(* data directory, create that directory and register the global hotkey.   *)
(*                                                                         *)
(* The filesystem is modelled by what the commands can observe of it: the  *)
(* home directory (resolvable or not), the data directory and its          *)
(* screenshots subdirectory (present or not), the ledger file, the         *)
(* settings file and the screenshot files.  A file is absent, holds bytes  *)
(* that are not UTF-8 ("binary": read_to_string fails), or holds text; a   *)
(* text is a JSON document or "garbage" (text serde_json rejects).         *)
(***************************************************************************)
EXTENDS Integers, Sequences, FiniteSets, TLC

VARIABLES
    homeOk,        \* dirs::home_dir() is Some
    rootDir,       \* <home>/InstantText OCR exists
    shotsDir,      \* <home>/InstantText OCR/screenshots exists
    ledgerFile,    \* <data dir>/ocr_results.json
    settingsFile,  \* <data dir>/settings.json
    shots,         \* screenshot files: second of the file name -> image, or NoImage
    now,           \* the UTC clock, in ticks of 1/TicksPerSecond second
    bindings,      \* the shortcuts the global-shortcut plugin holds registered
    last,          \* the last command run: its name, argument and return value
    saves,         \* history: the save_ocr_result calls made so far, <<argument, succeeded>>
    ledger0,       \* history: the ledger file at start
    savedSettings, \* history: the argument of the last save_settings that returned Ok
    shotLog,       \* history: the last two capture_screenshot_region calls that returned Ok
    pc,            \* concurrent save_ocr_result calls: where each call stands
    arg,           \* concurrent calls: the result each call was given
    loaded,        \* concurrent calls: the vector each call loaded (its local `results`)
    seen,          \* concurrent calls: history, how many writes were done when it loaded
    rret,          \* concurrent calls: each call's return value
    worder         \* concurrent calls: history, the calls in the order they wrote

fsVars   == <<homeOk, rootDir, shotsDir, ledgerFile, settingsFile, shots>>
histVars == <<saves, ledger0, savedSettings, shotLog>>
raceVars == <<pc, arg, loaded, seen, rret, worder>>
vars     == <<homeOk, rootDir, shotsDir, ledgerFile, settingsFile, shots, now,
              bindings, last, saves, ledger0, savedSettings, shotLog,
              pc, arg, loaded, seen, rret, worder>>

----------------------------------------------------------------------------
(* Result<T, String> *)

Ok(v)  == [ok |-> TRUE,  val |-> v,    err |-> ""]
Err(e) == [ok |-> FALSE, val |-> <<>>, err |-> e]
Unit   == <<>>

----------------------------------------------------------------------------
(* Paths.  A path is a sequence of components; to_string_lossy replaces    *)
(* what is not valid Unicode in a component.                               *)

Home == <<"home", "user">>

LossyName(c) == IF c = "\\xFF" THEN "\\uFFFD" ELSE c

to_string_lossy(p) == [i \in 1..Len(p) |-> LossyName(p[i])]

join(p, c) == Append(p, c)

HomeErr == "Failed to get home directory"

get_app_data_dir ==
    IF homeOk THEN Ok(join(Home, "InstantText OCR")) ELSE Err(HomeErr)

(* get_default_screenshots_dir naming the directory the captures go to *)
get_default_screenshots_dir_lower ==
    to_string_lossy(join(join(IF homeOk THEN Home ELSE <<".">>,
                              "InstantText OCR"), "screenshots"))

get_default_screenshots_dir ==
    to_string_lossy(join(join(IF homeOk THEN Home ELSE <<".">>,
                              "InstantText OCR"), "Screenshots"))

----------------------------------------------------------------------------
(* JSON values, as serde_json writes and reads them.                       *)

JStr(s)  == [t |-> "string", s |-> s,  b |-> FALSE]
JNum(x)  == [t |-> "number", s |-> x,  b |-> FALSE]
JBool(b) == [t |-> "bool",   s |-> "", b |-> b]
JNull    == [t |-> "null",   s |-> "", b |-> FALSE]

(* Files *)
NoFile        == [kind |-> "absent", json |-> FALSE, doc |-> <<>>]
BinaryFile    == [kind |-> "binary", json |-> FALSE, doc |-> <<>>]
GarbageFile   == [kind |-> "text",   json |-> FALSE, doc |-> <<>>]
JsonFile(doc) == [kind |-> "text",   json |-> TRUE,  doc |-> doc]

exists(f) == f.kind # "absent"

(* fs::read_to_string: the text, or an io error when the bytes are not UTF-8 *)
read_to_string(f) == IF f.kind = "text" THEN Ok(f) ELSE Err("stream did not contain valid UTF-8")

----------------------------------------------------------------------------
(* OcrResult and its serde form.  A finite f32 is written by its shortest  *)
(* decimal text, taken here to read back to the same f32; serde_json       *)
(* writes a non-finite f32 (NaN, +-inf) as null, and null does not read as *)
(* an f32.                                                                 *)

NonFinite == {"inf", "NaN"}

is_finite(c) == c \notin NonFinite

OcrResultValue(id, confidence) ==
    [id |-> id, text |-> "Hello", timestamp |-> "2024-01-01T00:00:00Z",
     screenshot_path |-> "shot.png", confidence |-> confidence]

serialize_f32(c) == IF is_finite(c) THEN JNum(c) ELSE JNull

serialize_OcrResult(r) ==
    [id |-> JStr(r.id), text |-> JStr(r.text), timestamp |-> JStr(r.timestamp),
     screenshot_path |-> JStr(r.screenshot_path),
     confidence |-> serialize_f32(r.confidence)]

(* serde_json::to_string_pretty(&results): a JSON array, one object each *)
to_string_pretty_results(results) ==
    [i \in 1..Len(results) |-> serialize_OcrResult(results[i])]

deserializes_OcrResult(o) ==
    /\ o.id.t = "string"
    /\ o.text.t = "string"
    /\ o.timestamp.t = "string"
    /\ o.screenshot_path.t = "string"
    /\ o.confidence.t = "number"

deserialize_OcrResult(o) ==
    [id |-> o.id.s, text |-> o.text.s, timestamp |-> o.timestamp.s,
     screenshot_path |-> o.screenshot_path.s, confidence |-> o.confidence.s]

ParseErr == "Failed to parse results file"

(* serde_json::from_str::<Vec<OcrResult>>(&content) *)
from_str_results(content) ==
    IF content.json /\ \A i \in 1..Len(content.doc) : deserializes_OcrResult(content.doc[i])
    THEN Ok([i \in 1..Len(content.doc) |-> deserialize_OcrResult(content.doc[i])])
    ELSE Err(ParseErr)

unwrap_or_default(res) == IF res.ok THEN res.val ELSE <<>>

----------------------------------------------------------------------------
(* Inputs of the ledger commands *)

MaxSaves == 3

Results == { OcrResultValue("a", "0.5"), OcrResultValue("b", "0.95"),
             OcrResultValue("c", "inf") }

Called(op, a, res) == [op |-> op, arg |-> a, res |-> res]

ReadErr  == "Failed to read results file"
WriteErr == "Failed to write results file"

(* load_existing with the parse failure propagated instead of swallowed *)
load_existing_strict(f) ==
    IF exists(f)
    THEN LET content == read_to_string(f)
         IN  IF content.ok THEN from_str_results(content.val) ELSE Err(ReadErr)
    ELSE Ok(<<>>)

(* lines 124-130: the vector save_ocr_result starts from *)
load_existing(f) ==
    IF exists(f)
    THEN LET content == read_to_string(f)
         IN  IF content.ok
             THEN Ok(unwrap_or_default(from_str_results(content.val)))
             ELSE Err(ReadErr)
    ELSE Ok(<<>>)

(* write_back appending to the file as it is at the time of the write *)
write_back_merging(results, result) ==
    IF rootDir
    THEN Ok(JsonFile(to_string_pretty_results(
                Append(load_existing(ledgerFile).val, result))))
    ELSE Err(WriteErr)

(* lines 132-140: push, serialize, fs::write (which needs the directory) *)
write_back(results, result) ==
    IF rootDir
    THEN Ok(JsonFile(to_string_pretty_results(Append(results, result))))
    ELSE Err(WriteErr)

save_ocr_result_outcome(f, result) ==
    LET dir     == get_app_data_dir
        results == load_existing(f)
        written == write_back(results.val, result)
    IN  IF ~dir.ok THEN [res |-> Err(dir.err), file |-> f]
        ELSE IF ~results.ok THEN [res |-> Err(results.err), file |-> f]
        ELSE IF ~written.ok THEN [res |-> Err(written.err), file |-> f]
        ELSE [res |-> Ok(Unit), file |-> written.val]

save_ocr_result(result) ==
    /\ Len(saves) < MaxSaves
    /\ LET out == save_ocr_result_outcome(ledgerFile, result)
       IN  /\ ledgerFile' = out.file
           /\ last' = Called("save_ocr_result", result, out.res)
           /\ saves' = Append(saves, <<result, out.res.ok>>)
    /\ UNCHANGED <<homeOk, rootDir, shotsDir, settingsFile, shots, now, bindings,
                   ledger0, savedSettings, shotLog>>
    /\ UNCHANGED raceVars

get_ocr_history_result(f) ==
    LET dir     == get_app_data_dir
        content == read_to_string(f)
    IN  IF ~dir.ok THEN Err(dir.err)
        ELSE IF ~exists(f) THEN Ok(<<>>)
        ELSE IF ~content.ok THEN Err(ReadErr)
        ELSE from_str_results(content.val)

get_ocr_history ==
    /\ last' = Called("get_ocr_history", Unit, get_ocr_history_result(ledgerFile))
    /\ UNCHANGED <<fsVars, now, bindings, histVars, raceVars>>

(* fs::create_dir, which fails on a directory that is already there *)
create_dir(present) == IF present THEN Err("File exists") ELSE Ok(TRUE)

(* fs::create_dir_all on a directory that is present or not: it is there after *)
create_dir_all(present) == Ok(TRUE)

ensure_directories ==
    /\ LET dir   == get_app_data_dir
           root  == create_dir_all(rootDir)
           shotd == create_dir_all(shotsDir)
       IN  IF ~dir.ok
           THEN /\ UNCHANGED <<rootDir, shotsDir>>
                /\ last' = Called("ensure_directories", Unit, Err(dir.err))
           ELSE IF ~root.ok
           THEN /\ UNCHANGED <<rootDir, shotsDir>>
                /\ last' = Called("ensure_directories", Unit,
                                  Err("Failed to create data directory"))
           ELSE IF ~shotd.ok
           THEN /\ rootDir' = root.val
                /\ UNCHANGED shotsDir
                /\ last' = Called("ensure_directories", Unit,
                                  Err("Failed to create screenshots directory"))
           ELSE /\ rootDir' = root.val
                /\ shotsDir' = shotd.val
                /\ last' = Called("ensure_directories", Unit, Ok(Unit))
    /\ UNCHANGED <<homeOk, ledgerFile, settingsFile, shots, now, bindings,
                   histVars, raceVars>>

----------------------------------------------------------------------------
(* Initial states *)

NoImage == [frame |-> 0, x |-> 0, y |-> 0, width |-> 0, height |-> 0]

MaxSecond == 1

Seconds == 0..MaxSecond

InitDirs ==
    /\ homeOk \in BOOLEAN
    /\ rootDir \in BOOLEAN
    /\ shotsDir \in BOOLEAN
    /\ shotsDir => rootDir
    /\ rootDir => homeOk

InitIdle ==
    /\ last = Called("none", Unit, Ok(Unit))
    /\ saves = <<>>
    /\ savedSettings = <<>>
    /\ shotLog = <<>>
    /\ now = 0
    /\ bindings = {}

NoRace ==
    /\ pc = <<>>
    /\ arg = <<>>
    /\ loaded = <<>>
    /\ seen = <<>>
    /\ rret = <<>>
    /\ worder = <<>>

LedgerFiles0 == {NoFile, GarbageFile, BinaryFile}

InitLedger ==
    /\ InitDirs
    /\ ledgerFile \in (IF rootDir THEN LedgerFiles0 ELSE {NoFile})
    /\ ledger0 = ledgerFile
    /\ settingsFile = NoFile
    /\ shots = [s \in Seconds |-> NoImage]
    /\ InitIdle
    /\ NoRace

NextLedger ==
    \/ \E result \in Results : save_ocr_result(result)
    \/ get_ocr_history
    \/ ensure_directories

SpecLedger == InitLedger /\ [][NextLedger]_vars

----------------------------------------------------------------------------
(* Claims about the ledger, run one call after another *)

Submitted == [i \in 1..Len(saves) |-> saves[i][1]]

AllSavesOk == \A i \in 1..Len(saves) : saves[i][2]

Malformed(f) == f.kind = "text" /\ ~from_str_results(f).ok

(* C1: from a ledger file that was never written, after save_ocr_result(r1),
   ..., save_ocr_result(rN) run one after another (all of them returning Ok,
   the home directory resolvable), get_ocr_history returns Ok([r1, ..., rN]);
   for N = 0 it returns Ok([]). *)
C1_AppendThenLoad ==
    (homeOk /\ ledger0 = NoFile /\ AllSavesOk /\ last.op = "get_ocr_history")
        => (last.res.ok /\ last.res.val = Submitted)

(* The same with every appended confidence finite: what the code does keep. *)
C1_FiniteAppendThenLoad ==
    (homeOk /\ ledger0 = NoFile /\ AllSavesOk /\ last.op = "get_ocr_history"
       /\ \A i \in 1..Len(saves) : is_finite(saves[i][1].confidence))
        => (last.res.ok /\ last.res.val = Submitted)

(* C3: when the ledger file holds text that does not parse as a sequence of
   OcrResult, save_ocr_result(r) returns Ok and rewrites the file to the
   one-element sequence [r], and get_ocr_history returns the parse error and
   leaves the file as it was. *)
C3_MalformedLedger ==
    [][Malformed(ledgerFile) =>
         /\ \A r \in Results :
              save_ocr_result(r) =>
                  /\ last'.res = Ok(Unit)
                  /\ ledgerFile' = JsonFile(to_string_pretty_results(<<r>>))
         /\ get_ocr_history =>
              /\ last'.res = Err(ParseErr)
              /\ ledgerFile' = ledgerFile]_vars

C3_Witness ==
    /\ ledger0 = GarbageFile
    /\ Len(saves) = 1
    /\ last.op = "save_ocr_result"
    /\ last.res.ok
    /\ ledgerFile = JsonFile(to_string_pretty_results(<<last.arg>>))

----------------------------------------------------------------------------
(* Two save_ocr_result calls running at once.  A Tauri async command runs   *)
(* on the multi-threaded async runtime and nothing in save_ocr_result       *)
(* locks the file, so between one call's read (lines 124-130) and its       *)
(* fs::write (line 139) the other call may read or write.                   *)

Calls == {1, 2}

Finish(p, res) ==
    /\ pc' = [pc EXCEPT ![p] = "done"]
    /\ rret' = [rret EXCEPT ![p] = res]

(* lines 120-130 of call p *)
save_ocr_result_load(p) ==
    /\ pc[p] = "start"
    /\ LET dir     == get_app_data_dir
           results == load_existing(ledgerFile)
       IN  IF ~dir.ok
           THEN Finish(p, Err(dir.err)) /\ UNCHANGED <<loaded, seen>>
           ELSE IF ~results.ok
           THEN Finish(p, Err(results.err)) /\ UNCHANGED <<loaded, seen>>
           ELSE /\ loaded' = [loaded EXCEPT ![p] = results.val]
                /\ seen' = [seen EXCEPT ![p] = Len(worder)]
                /\ pc' = [pc EXCEPT ![p] = "loaded"]
                /\ UNCHANGED rret
    /\ UNCHANGED <<fsVars, now, bindings, last, histVars, arg, worder>>

(* lines 132-142 of call p *)
save_ocr_result_write(p) ==
    /\ pc[p] = "loaded"
    /\ LET written == write_back(loaded[p], arg[p])
       IN  IF written.ok
           THEN /\ ledgerFile' = written.val
                /\ worder' = Append(worder, p)
                /\ Finish(p, Ok(Unit))
           ELSE /\ UNCHANGED <<ledgerFile, worder>>
                /\ Finish(p, Err(written.err))
    /\ UNCHANGED <<homeOk, rootDir, shotsDir, settingsFile, shots, now, bindings,
                   last, histVars, arg, loaded, seen>>

RaceFiles0 ==
    LedgerFiles0 \cup { JsonFile(to_string_pretty_results(<<r>>)) : r \in Results }

InitRace ==
    /\ InitDirs
    /\ ledgerFile \in (IF rootDir THEN RaceFiles0 ELSE {NoFile})
    /\ ledger0 = ledgerFile
    /\ settingsFile = NoFile
    /\ shots = [s \in Seconds |-> NoImage]
    /\ InitIdle
    /\ arg \in {a \in [Calls -> Results] : a[1] # a[2]}
    /\ pc = [p \in Calls |-> "start"]
    /\ loaded = [p \in Calls |-> <<>>]
    /\ seen = [p \in Calls |-> 0]
    /\ rret = [p \in Calls |-> Ok(Unit)]
    /\ worder = <<>>

NextRace ==
    \/ \E p \in Calls : save_ocr_result_load(p)
    \/ \E p \in Calls : save_ocr_result_write(p)

SpecRace == InitRace /\ [][NextRace]_vars

(* what a call that read the initial file starts from *)
Base == load_existing(ledger0).val

BothReturnedOk == \A p \in Calls : pc[p] = "done" /\ rret[p].ok

(* C2: when two concurrent save_ocr_result calls both read the file before
   either writes it and both return Ok, the file ends as what was there at
   the start plus the result of the call that wrote last: the result of the
   call that wrote first is lost. *)
C2_LastWriterWins ==
    \A p \in Calls, q \in Calls :
        (BothReturnedOk /\ seen[p] = 0 /\ seen[q] = 0 /\ worder = <<p, q>>)
            => ledgerFile = JsonFile(to_string_pretty_results(Append(Base, arg[q])))

C2_Witness ==
    /\ BothReturnedOk
    /\ ledger0 = NoFile
    /\ worder = <<1, 2>>
    /\ from_str_results(ledgerFile) = Ok(<<arg[2]>>)

----------------------------------------------------------------------------
(* AppSettings, its default and its serde form *)

AppSettingsValue(hotkey, copy, save, dir, auto) ==
    [global_hotkey |-> hotkey, auto_copy_to_clipboard |-> copy,
     save_screenshots |-> save, screenshots_dir |-> dir, autostart |-> auto]

AppSettings_default ==
    AppSettingsValue("ctrl+shift+o", TRUE, TRUE, get_default_screenshots_dir, FALSE)

(* serialize_AppSettings with autostart left out of what is written *)
serialize_AppSettings_skip(s) ==
    [global_hotkey |-> JStr(s.global_hotkey),
     auto_copy_to_clipboard |-> JBool(s.auto_copy_to_clipboard),
     save_screenshots |-> JBool(s.save_screenshots),
     screenshots_dir |-> JStr(s.screenshots_dir),
     autostart |-> JBool(FALSE)]

(* serde_json::to_string_pretty(&settings): one JSON object *)
serialize_AppSettings(s) ==
    [global_hotkey |-> JStr(s.global_hotkey),
     auto_copy_to_clipboard |-> JBool(s.auto_copy_to_clipboard),
     save_screenshots |-> JBool(s.save_screenshots),
     screenshots_dir |-> JStr(s.screenshots_dir),
     autostart |-> JBool(s.autostart)]

SettingsParseErr == "Failed to parse settings file"
SettingsReadErr  == "Failed to read settings file"
SettingsWriteErr == "Failed to write settings file"

(* serde_json::from_str::<AppSettings>(&content) *)
from_str_settings(content) ==
    IF /\ content.json
       /\ content.doc.global_hotkey.t = "string"
       /\ content.doc.auto_copy_to_clipboard.t = "bool"
       /\ content.doc.save_screenshots.t = "bool"
       /\ content.doc.screenshots_dir.t = "string"
       /\ content.doc.autostart.t = "bool"
    THEN Ok(AppSettingsValue(content.doc.global_hotkey.s,
                             content.doc.auto_copy_to_clipboard.b,
                             content.doc.save_screenshots.b,
                             content.doc.screenshots_dir.s,
                             content.doc.autostart.b))
    ELSE Err(SettingsParseErr)

get_settings_result(f) ==
    LET dir     == get_app_data_dir
        content == read_to_string(f)
    IN  IF ~dir.ok THEN Err(dir.err)
        ELSE IF ~exists(f) THEN Ok(AppSettings_default)
        ELSE IF ~content.ok THEN Err(SettingsReadErr)
        ELSE from_str_settings(content.val)

get_settings ==
    /\ last' = Called("get_settings", Unit, get_settings_result(settingsFile))
    /\ UNCHANGED <<fsVars, now, bindings, histVars, raceVars>>

save_settings(settings) ==
    /\ LET dir == get_app_data_dir
           res == IF ~dir.ok THEN Err(dir.err)
                  ELSE IF ~rootDir THEN Err(SettingsWriteErr)
                  ELSE Ok(Unit)
       IN  /\ settingsFile' = IF res.ok THEN JsonFile(serialize_AppSettings(settings))
                                        ELSE settingsFile
           /\ savedSettings' = IF res.ok THEN <<settings>> ELSE savedSettings
           /\ last' = Called("save_settings", settings, res)
    /\ UNCHANGED <<homeOk, rootDir, shotsDir, ledgerFile, shots, now, bindings,
                   saves, ledger0, shotLog, raceVars>>

HotkeyStrings == {"ctrl+shift+o", "alt+x"}

DirStrings == { <<"home", "user", "InstantText OCR", "Screenshots">>,
                <<"tmp", "shots">> }

AllSettings ==
    { AppSettingsValue(h, c, s, d, a) :
        h \in HotkeyStrings, c \in BOOLEAN, s \in BOOLEAN, d \in DirStrings, a \in BOOLEAN }

SettingsFiles0 == {NoFile, GarbageFile, BinaryFile}

InitSettings ==
    /\ InitDirs
    /\ settingsFile \in (IF rootDir THEN SettingsFiles0 ELSE {NoFile})
    /\ ledgerFile = NoFile
    /\ ledger0 = ledgerFile
    /\ shots = [s \in Seconds |-> NoImage]
    /\ InitIdle
    /\ NoRace

NextSettings ==
    \/ \E settings \in AllSettings : save_settings(settings)
    \/ get_settings
    \/ ensure_directories

SpecSettings == InitSettings /\ [][NextSettings]_vars

(* C6: get_settings returns the record of the most recent save_settings that
   returned Ok, whatever its five fields: right after that save, and after
   any further calls that are not a successful save. *)
C6_SettingsRoundTrip ==
    (last.op = "get_settings" /\ savedSettings # <<>>)
        => (last.res.ok /\ last.res.val = savedSettings[1])

C6_Witness ==
    /\ last.op = "get_settings"
    /\ savedSettings # <<>>
    /\ last.res.ok
    /\ last.res.val = AppSettingsValue("alt+x", FALSE, FALSE, <<"tmp", "shots">>, TRUE)

ExpectedDefault ==
    [global_hotkey |-> "ctrl+shift+o", auto_copy_to_clipboard |-> TRUE,
     save_screenshots |-> TRUE, autostart |-> FALSE,
     screenshots_dir |-> <<"home", "user", "InstantText OCR", "Screenshots">>]

(* C7: when no settings file exists, get_settings returns the default record
   (ctrl+shift+o, TRUE, TRUE, FALSE, home directory joined with
   InstantText OCR/Screenshots) and does not create the file; the absence
   is never the cause of a failure: the only failure is that of resolving
   the home directory, before the file is looked at. *)
C7_DefaultWhenAbsent ==
    [][(settingsFile = NoFile /\ get_settings) =>
         /\ settingsFile' = NoFile
         /\ homeOk => last'.res = Ok(ExpectedDefault)
         /\ ~homeOk => last'.res = Err(HomeErr)]_vars

C7_Witness ==
    /\ last.op = "get_settings"
    /\ settingsFile = NoFile
    /\ last.res.ok
    /\ last.res.val = ExpectedDefault

----------------------------------------------------------------------------
(* capture_screenshot_region.  An image is the rectangle of the captured   *)
(* frame it shows: the frame's content and the rectangle's origin and size. *)

(* The region's u32 and i32 fields are modelled WordBits wide: unsigned in
   0 .. 2^WordBits - 1, signed in -2^(WordBits-1) .. 2^(WordBits-1) - 1. *)
WordBits == 8

U32_MAX == 2^WordBits - 1
I32_MIN == -(2^(WordBits - 1))
I32_MAX == 2^(WordBits - 1) - 1

TicksPerSecond == 2

MaxFrame == 2

max(a, b) == IF a >= b THEN a ELSE b
min(a, b) == IF a <= b THEN a ELSE b

(* u32::wrapping_sub *)
wrapping_sub(a, b) == (a - b) % 2^WordBits

(* u32::saturating_sub *)
saturating_sub(a, b) == IF a >= b THEN a - b ELSE 0

(* `v as u32` of an i32 *)
as_u32(v) == v % 2^WordBits

NoRegion == [some |-> FALSE, x |-> 0, y |-> 0, width |-> 0, height |-> 0]

SomeRegion(x, y, w, h) == [some |-> TRUE, x |-> x, y |-> y, width |-> w, height |-> h]

Image(frame, x, y, w, h) == [frame |-> frame, x |-> x, y |-> y, width |-> w, height |-> h]

(* what Screen::all() and screen.capture() gave *)
ScreenFailed(state) == [state |-> state, width |-> 0, height |-> 0, frame |-> 0]

Captured(w, h, frame) == [state |-> "ok", width |-> w, height |-> h, frame |-> frame]

InvalidRegion == "Invalid capture region"

(* GenericImageView::view panics on a rectangle that leaves the image *)
view(screen, x, y, w, h) ==
    IF x + w <= screen.width /\ y + h <= screen.height
    THEN Ok(Image(screen.frame, x, y, w, h))
    ELSE Err("panicked: image view out of bounds")

(* final_image with the requested size not clamped to the frame *)
final_image_unclamped(region, screen) ==
    IF region.some
    THEN LET x == as_u32(max(region.x, 0))
             y == as_u32(max(region.y, 0))
         IN  IF region.width = 0 \/ region.height = 0
             THEN Err(InvalidRegion)
             ELSE Ok(Image(screen.frame, x, y, region.width, region.height))
    ELSE Ok(Image(screen.frame, 0, 0, screen.width, screen.height))

(* lines 83-100 *)
final_image(region, screen) ==
    IF region.some
    THEN LET width       == screen.width
             height      == screen.height
             x           == as_u32(max(region.x, 0))
             y           == as_u32(max(region.y, 0))
             crop_width  == min(region.width, saturating_sub(width, x))
             crop_height == min(region.height, saturating_sub(height, y))
         IN  IF crop_width = 0 \/ crop_height = 0
             THEN Err(InvalidRegion)
             ELSE view(screen, x, y, crop_width, crop_height)
    ELSE Ok(Image(screen.frame, 0, 0, screen.width, screen.height))

(* timestamp.format with the fraction of the second kept in the name *)
format_timestamp_fraction(t) == t

(* timestamp.format("%Y%m%d_%H%M%S"): the time cut to the second *)
format_timestamp(t) == t \div TicksPerSecond

Latest(log) == IF Len(log) > 2 THEN Tail(log) ELSE log

ScreenshotPath(dir, name) ==
    [dir |-> to_string_lossy(join(dir, "screenshots")), name |-> name]

capture_screenshot_region(region, screen) ==
    /\ LET image    == final_image(region, screen)
           dir      == get_app_data_dir
           made     == create_dir_all(shotsDir)
           filename == format_timestamp(now)
           res == IF screen.state = "all_failed" THEN Err("Failed to get screens")
                  ELSE IF screen.state = "none" THEN Err("No screens found")
                  ELSE IF screen.state = "capture_failed" THEN Err("Failed to capture screen")
                  ELSE IF ~image.ok THEN Err(image.err)
                  ELSE IF ~dir.ok THEN Err(dir.err)
                  ELSE IF ~made.ok THEN Err("Failed to create screenshots directory")
                  ELSE Ok(ScreenshotPath(dir.val, filename))
       IN  /\ IF res.ok
              THEN /\ rootDir' = TRUE
                   /\ shotsDir' = made.val
                   /\ shots' = [shots EXCEPT ![filename] = image.val]
              ELSE UNCHANGED <<rootDir, shotsDir, shots>>
           /\ last' = Called("capture_screenshot_region",
                             [region |-> region, screen |-> screen, at |-> now], res)
           /\ shotLog' = IF res.ok
                         THEN Latest(Append(shotLog,
                                  [region |-> region, screen |-> screen, at |-> now,
                                   path |-> res.val]))
                         ELSE shotLog
    /\ UNCHANGED <<homeOk, ledgerFile, settingsFile, now, bindings,
                   saves, ledger0, savedSettings, raceVars>>

(* the clock moves on *)
Tick ==
    /\ now < (MaxSecond + 1) * TicksPerSecond - 1
    /\ now' = now + 1
    /\ UNCHANGED <<fsVars, bindings, last, histVars, raceVars>>

----------------------------------------------------------------------------
(* One capture call, over the regions and frames at the edges of i32/u32 *)

EdgeX == {I32_MIN, -1, 0, 1, 2, I32_MAX}
EdgeY == {-1, 0, 1, 2}
EdgeW == {0, 1, 2, U32_MAX}
EdgeH == {0, 1, U32_MAX}

EdgeRegions ==
    {NoRegion} \cup
    { SomeRegion(x, y, w, h) : x \in EdgeX, y \in EdgeY, w \in EdgeW, h \in EdgeH }

EdgeScreens ==
    { ScreenFailed(st) : st \in {"all_failed", "none", "capture_failed"} } \cup
    { Captured(w, h, 1) : w \in 1..MaxFrame, h \in 1..MaxFrame }

InitCrop ==
    /\ InitDirs
    /\ shots \in (IF shotsDir
                  THEN {[s \in Seconds |-> NoImage],
                        [s \in Seconds |-> Image(2, 0, 0, 1, 1)]}
                  ELSE {[s \in Seconds |-> NoImage]})
    /\ ledgerFile = NoFile
    /\ ledger0 = ledgerFile
    /\ settingsFile = NoFile
    /\ InitIdle
    /\ NoRace

NextCrop ==
    \E region \in EdgeRegions, screen \in EdgeScreens :
        last.op = "none" /\ capture_screenshot_region(region, screen)

SpecCrop == InitCrop /\ [][NextCrop]_vars

InsideFrame(region, screen) ==
    /\ region.some
    /\ screen.state = "ok"
    /\ 0 <= region.x /\ region.x < screen.width
    /\ 0 <= region.y /\ region.y < screen.height
    /\ region.width > 0 /\ region.height > 0

NameOf(call) == call.arg.at \div TicksPerSecond

(* C4: for a captured frame W x H and a region with 0 <= x < W, 0 <= y < H,
   width > 0 and height > 0, the crop does not fail (the call fails only if
   the home directory cannot be resolved, after the crop) and the image
   written is the rectangle at (x, y) of width min(region.width, W - x) and
   height min(region.height, H - y), which lies inside the frame. *)
C4_CropInsideFrame ==
    (last.op = "capture_screenshot_region" /\ InsideFrame(last.arg.region, last.arg.screen))
        => LET r == last.arg.region
               f == last.arg.screen
               w == IF r.width <= f.width - r.x THEN r.width ELSE f.width - r.x
               h == IF r.height <= f.height - r.y THEN r.height ELSE f.height - r.y
           IN  /\ r.x + w <= f.width /\ r.y + h <= f.height
               /\ homeOk => /\ last.res.ok
                            /\ shots[NameOf(last)] = Image(f.frame, r.x, r.y, w, h)
               /\ ~homeOk => last.res = Err(HomeErr)

C4_Witness ==
    /\ last.op = "capture_screenshot_region"
    /\ last.arg.region = SomeRegion(1, 1, U32_MAX, 1)
    /\ last.arg.screen = Captured(2, 2, 1)
    /\ last.res.ok
    /\ shots[0] = Image(1, 1, 1, 1, 1)

ClampedWidth(region, screen) ==
    LET x == IF region.x < 0 THEN 0 ELSE region.x
        room == IF screen.width >= x THEN screen.width - x ELSE 0
    IN  IF region.width <= room THEN region.width ELSE room

ClampedHeight(region, screen) ==
    LET y == IF region.y < 0 THEN 0 ELSE region.y
        room == IF screen.height >= y THEN screen.height - y ELSE 0
    IN  IF region.height <= room THEN region.height ELSE room

(* C5: with a frame captured and a region given, capture_screenshot_region
   returns the invalid-region error exactly when the clamped width
   min(region.width, W -. max(x, 0)) or the clamped height is 0, and a call
   that returns it leaves the directories and the screenshot files as they
   were. *)
C5_InvalidRegion ==
    [][(/\ last'.op = "capture_screenshot_region"
        /\ capture_screenshot_region(last'.arg.region, last'.arg.screen)) =>
          LET region == last'.arg.region
              screen == last'.arg.screen
          IN  /\ (region.some /\ screen.state = "ok") =>
                     (last'.res = Err(InvalidRegion)
                        <=> (ClampedWidth(region, screen) = 0
                               \/ ClampedHeight(region, screen) = 0))
              /\ last'.res = Err(InvalidRegion)
                     => UNCHANGED <<rootDir, shotsDir, shots>>]_vars

C5_Witness ==
    /\ last.op = "capture_screenshot_region"
    /\ last.arg.region = SomeRegion(I32_MAX, 0, 1, 1)
    /\ last.arg.screen = Captured(2, 2, 1)
    /\ last.res = Err(InvalidRegion)
    /\ ~rootDir

----------------------------------------------------------------------------
(* Captures as the clock runs *)

FewRegions == {NoRegion, SomeRegion(1, 0, 1, 1)}

FewScreens == {ScreenFailed("none"), Captured(2, 2, 1), Captured(2, 2, 2)}

InitCapture ==
    /\ InitDirs
    /\ shots = [s \in Seconds |-> NoImage]
    /\ ledgerFile = NoFile
    /\ ledger0 = ledgerFile
    /\ settingsFile = NoFile
    /\ InitIdle
    /\ NoRace

NextCapture ==
    \/ \E region \in FewRegions, screen \in FewScreens :
           capture_screenshot_region(region, screen)
    \/ Tick
    \/ ensure_directories

SpecCapture == InitCapture /\ [][NextCapture]_vars

SecondOf(c) == c.at \div TicksPerSecond

(* the image a capture of an in-frame region, or of no region, produces *)
ImageOf(c) ==
    IF c.region.some
    THEN Image(c.screen.frame, c.region.x, c.region.y,
               ClampedWidth(c.region, c.screen), ClampedHeight(c.region, c.screen))
    ELSE Image(c.screen.frame, 0, 0, c.screen.width, c.screen.height)

(* C8: of two successful captures, the later returns the path of the earlier
   exactly when both timestamps fall in the same second; then the file at
   that path holds the later capture's image; with different seconds both
   files exist. *)
C8_SameSecondOverwrites ==
    Len(shotLog) = 2 =>
        LET early == shotLog[1]
            late  == shotLog[2]
        IN  /\ (SecondOf(early) = SecondOf(late)) <=> (early.path = late.path)
            /\ shots[SecondOf(late)] = ImageOf(late)
            /\ SecondOf(early) # SecondOf(late)
                 => /\ shots[SecondOf(early)] # NoImage
                    /\ shots[SecondOf(late)] # NoImage

C8_Witness ==
    /\ Len(shotLog) = 2
    /\ shotLog[1].at = 0 /\ shotLog[2].at = 1
    /\ shotLog[1].path = shotLog[2].path
    /\ ImageOf(shotLog[1]) # ImageOf(shotLog[2])
    /\ shots[0] = ImageOf(shotLog[2])
    /\ shots[1] = NoImage

----------------------------------------------------------------------------
(* register_global_hotkey.  The plugin parses a hotkey string without      *)
(* regard to case; the system may refuse a registration.                   *)

(* <Shortcut as FromStr>::from_str *)
parse_shortcut(hotkey) ==
    IF hotkey \in {"ctrl+shift+o", "CTRL+SHIFT+O"} THEN Ok("Control+Shift+KeyO")
    ELSE IF hotkey = "alt+x" THEN Ok("Alt+KeyX")
    ELSE Err("Failed to parse hotkey")

(* the call to unregister_all left out *)
unregister_none(registered) == registered

(* global_shortcut().unregister_all(): what stays registered *)
unregister_all(registered) == {}

register_global_hotkey(hotkey, accepted) ==
    /\ LET cleared  == unregister_all(bindings)
           shortcut == parse_shortcut(hotkey)
           res == IF ~shortcut.ok THEN Err(shortcut.err)
                  ELSE IF ~accepted THEN Err("Failed to register hotkey")
                  ELSE Ok(Unit)
       IN  /\ bindings' = IF res.ok THEN cleared \cup {shortcut.val} ELSE cleared
           /\ last' = Called("register_global_hotkey",
                             [hotkey |-> hotkey, accepted |-> accepted], res)
    /\ UNCHANGED <<fsVars, now, histVars, raceVars>>

----------------------------------------------------------------------------
(* The whole backend, one command after another.  At start the startup     *)
(* task of run (lines 273-282) has created the directories and registered  *)
(* the default hotkey, or failed to.                                       *)

Hotkeys == {"ctrl+shift+o", "CTRL+SHIFT+O", "alt+x", "not a hotkey"}

SomeResults == { OcrResultValue("a", "0.5") }

SomeSettings == { AppSettingsValue("alt+x", FALSE, TRUE, <<"tmp", "shots">>, TRUE) }

SomeScreens == {ScreenFailed("none"), Captured(2, 2, 1)}

Init ==
    /\ InitDirs
    /\ ledgerFile \in (IF rootDir THEN {NoFile, GarbageFile} ELSE {NoFile})
    /\ ledger0 = ledgerFile
    /\ settingsFile \in (IF rootDir THEN {NoFile, GarbageFile} ELSE {NoFile})
    /\ shots = [s \in Seconds |-> NoImage]
    /\ last = Called("none", Unit, Ok(Unit))
    /\ saves = <<>>
    /\ savedSettings = <<>>
    /\ shotLog = <<>>
    /\ now = 0
    /\ bindings \in {{}, {"Control+Shift+KeyO"}}
    /\ NoRace

Next ==
    \/ \E screen \in SomeScreens : capture_screenshot_region(NoRegion, screen)
    \/ \E result \in SomeResults : save_ocr_result(result)
    \/ get_ocr_history
    \/ get_settings
    \/ \E settings \in SomeSettings : save_settings(settings)
    \/ ensure_directories
    \/ \E hotkey \in Hotkeys, accepted \in BOOLEAN : register_global_hotkey(hotkey, accepted)
    \/ Tick

Spec == Init /\ [][Next]_vars

(* C9: the process never holds more than one hotkey binding; after a
   register_global_hotkey call that returned Ok the only binding is the
   shortcut the call's string parses to, and after a call that failed (the
   string did not parse, or the registration was refused) there is no
   binding: the one held before is gone and is not restored. *)
C9_SingleBinding ==
    /\ Cardinality(bindings) <= 1
    /\ last.op = "register_global_hotkey" =>
         IF last.res.ok
         THEN \/ last.arg.hotkey \in {"ctrl+shift+o", "CTRL+SHIFT+O"}
                   /\ bindings = {"Control+Shift+KeyO"}
              \/ last.arg.hotkey = "alt+x" /\ bindings = {"Alt+KeyX"}
         ELSE bindings = {}

C9_Witness ==
    /\ last.op = "register_global_hotkey"
    /\ last.arg.hotkey = "alt+x"
    /\ last.res.ok
    /\ bindings = {"Alt+KeyX"}

(* C10: with the home directory resolvable, ensure_directories returns Ok
   and leaves the data directory and its screenshots subdirectory present,
   whether or not they were there before, and leaves the ledger file, the
   settings file and the screenshot files as they were; run on a tree that
   is already there it changes nothing in it. *)
C10_EnsureIdempotent ==
    [][(homeOk /\ ensure_directories) =>
         /\ last'.res = Ok(Unit)
         /\ rootDir' /\ shotsDir'
         /\ UNCHANGED <<ledgerFile, settingsFile, shots>>
         /\ (rootDir /\ shotsDir) => UNCHANGED <<rootDir, shotsDir>>]_vars

C10_Witness ==
    /\ last.op = "ensure_directories"
    /\ last.res.ok
    /\ rootDir /\ shotsDir
    /\ ledgerFile.json /\ Len(ledgerFile.doc) = 2
    /\ settingsFile.json
    /\ shots[0] # NoImage

====
